---- MODULE Spec2Model ----
(***************************************************************************)
(* The ping-pong engine of examples/stm32f103-ping-pong.rs: the interrupt  *)
(* handler EXTI15_10 with the latch DIO1_RISEN, and the blocking main loop *)
(* that drives the SX126x radio through init, set_rx, clear_irq_status,    *)
(* get_status, get_rx_buffer_status, read_buffer and write_bytes.  Every   *)
(* driver call returns a Result that main unwraps, so each call either     *)
(* succeeds or panics; the radio and the diagnostic sink are external and  *)
(* their answers are drawn nondeterministically.                           *)
(*                                                                         *)
(* Spec runs the program against a radio double whose DIO1 edges and       *)
(* statuses are arbitrary; FairSpec is Spec with no failing call and a     *)
(* fairly scheduled main; DeviceSpec runs the same program against a radio *)
(* that follows the description of the driver interface.                   *)
(***************************************************************************)
EXTENDS Integers, Sequences, FiniteSets, TLC

VARIABLES
    pc,              \* position of main()
    haltCause,       \* why main() stopped: "none" while it runs
    overflowChecks,  \* build profile: TRUE when u8 overflow panics, FALSE when it wraps
    dio1Ready,       \* DIO1_PIN written and its EXTI line enabled (lines 104-107)
    pinInits,        \* how many times DIO1_PIN was written
    lora_dio1,       \* what main's lora_dio1 refers to: "none" before line 100
    nvicUnmasked,    \* EXTI15_10 unmasked in the NVIC (line 137)
    pending,         \* EXTI pending bit of the DIO1 line
    DIO1_RISEN,      \* the latch (line 33)
    status,          \* command status matched at line 146 in this iteration
    payload_len,     \* line 151
    start_offset,    \* line 152
    i,               \* loop variable of line 157
    chunk_result,    \* line 156: for each of its 32 cells, which byte it holds
    calls,           \* driver calls issued since startup or since the last observed event
    results,         \* outcome of each call of calls: TRUE for Ok, FALSE for Err
    diag,            \* what was written to the semihosting sink in the same window
    initCalls,       \* how many times lora.init was called
    nSignals,        \* how many times the handler stored true into the latch
    nTrue,           \* how many times swap(false) returned true
    burst,           \* stores of true in the latest run of stores with no swap between them
    swapped,         \* a swap has run since the last store of true
    took,            \* what the latest swap returned: "none" before the first one
    trueSince,       \* swaps that returned true since the last store of true
    scriptPos,       \* how many leading get_status results followed Script; OffScript once one did not
    devMode,         \* the radio: "standby", "rx" (listening) or "tx" (transmitting)
    devStatus,       \* the radio: its most recent command-status classification
    dio1Level,       \* the radio: DIO1 is high, an interrupt it raised not yet cleared
    nReceived,       \* the radio: payloads it has received
    nReplies         \* the radio: transmissions write_bytes has started

vars == <<pc, haltCause, overflowChecks, dio1Ready, pinInits, lora_dio1,
          nvicUnmasked, pending,
          DIO1_RISEN, status, payload_len, start_offset, i, chunk_result, calls,
          results,
          diag, initCalls, nSignals, nTrue, burst, swapped, took, trueSince, scriptPos,
          devMode, devStatus, dio1Level, nReceived, nReplies>>

(***************************************************************************)
(* Bounds of the model.                                                    *)
(***************************************************************************)
\* Rising edges the radio raises on DIO1 in one run.
MaxSignals == 4
\* Longest payload the radio double reports.
MaxPayloadLen == 66
\* The start offsets the radio double reports are OffsetSteps + 1 values
\* spread evenly over the u8 range, its two ends included.
OffsetSteps == 4

(***************************************************************************)
(* Program constants.                                                      *)
(***************************************************************************)
\* payload_len, start_offset and i are u8.
U8Max == 255
U8Mod == U8Max + 1
\* chunk_result.len()
ChunkLen == 32
RX_TIMEOUT_MS == 3000
TX_TIMEOUT == 0
PREAMBLE_LEN == 8
RF_FREQUENCY == 868000000
F_XTAL == 32000000
REPLY == "Hello from sx126x-rs!"

Min(a, b) == IF a < b THEN a ELSE b

PayloadLens == 0..Min(MaxPayloadLen, U8Max)
StartOffsets == {(k * U8Max) \div OffsetSteps : k \in 0..OffsetSteps}

\* The command statuses main distinguishes, an unlisted Some(_) and None.
CommandStatuses ==
    {"DataAvailable", "CommandTxDone", "CommandTimeout", "Unlisted", "None"}
OtherStatuses == {"Unlisted", "None"}
NoStatus == "unread"

\* IrqMask::none() and IrqMask::combine: a mask is the set of the interrupts
\* it selects.
IrqMaskNone == {}
Combine(mask, irq) == mask \cup {irq}

\* Lines 207-210
dio1_irq_mask_no_timeout == Combine(Combine(IrqMaskNone, "TxDone"), "RxDone")
dio1_irq_mask ==
    Combine(Combine(Combine(IrqMaskNone, "TxDone"), "Timeout"), "RxDone")

build_config ==
    [ packet_type   |-> "LoRa",
      sync_word     |-> 5156,
      calib_param   |-> 127,
      mod_params    |-> "LoraModParams::default",
      tx_params     |-> [power_dbm |-> 14, ramp_time |-> "Ramp200u"],
      pa_config     |-> [device_sel |-> "SX1261", pa_duty_cycle |-> 4],
      packet_params |-> "Some(LoRaPacketParams::default)",
      dio1_irq_mask |-> dio1_irq_mask,
      dio2_irq_mask |-> IrqMaskNone,
      dio3_irq_mask |-> IrqMaskNone,
      rf_frequency  |-> RF_FREQUENCY,
      rf_freq       |-> [calc_rf_freq |-> <<RF_FREQUENCY, F_XTAL>>] ]

(***************************************************************************)
(* The driver calls, as main issues them.                                  *)
(***************************************************************************)
CallInit == [op |-> "init", conf |-> build_config]
CallSetRx == [op |-> "set_rx", timeout_ms |-> RX_TIMEOUT_MS]
CallClearIrq == [op |-> "clear_irq_status", mask |-> "IrqMask::all"]
CallGetStatus == [op |-> "get_status"]
CallGetRxBufferStatus == [op |-> "get_rx_buffer_status"]
CallReadBuffer(offset, len) == [op |-> "read_buffer", offset |-> offset, len |-> len]
CallWriteBytes ==
    [ op |-> "write_bytes", data |-> REPLY, timeout |-> TX_TIMEOUT,
      preamble_len |-> PREAMBLE_LEN, crc_type |-> "CrcOn", dio1 |-> lora_dio1 ]

\* x.unwrap(): Ok continues at next, Err panics.
UnwrapNoHalt(ok, next) == next
Unwrap(ok, next) == IF ok THEN next ELSE "halt"

Issue(call, ok) ==
    /\ calls' = Append(calls, call)
    /\ results' = Append(results, ok)

\* Run a driver call that main unwraps.
Command(call, ok, next) ==
    /\ Issue(call, ok)
    /\ pc' = Unwrap(ok, next)
    /\ haltCause' = IF pc' = "halt" THEN "DeviceError" ELSE haltCause

\* hprint!/hprintln!(..).unwrap()
Report(text, ok, next) ==
    /\ diag' = IF ok THEN Append(diag, text) ELSE diag
    /\ pc' = Unwrap(ok, next)
    /\ haltCause' = IF pc' = "halt" THEN "SinkError" ELSE haltCause

\* Line 156: let mut chunk_result = [0u8; 32].  A cell of chunk_result holds
\* ZeroByte until a read fills it; a cell a read filled holds the address, in
\* the radio's buffer, of the byte it received.
ZeroByte == 0 - 1
Zeroed == [j \in 1..ChunkLen |-> ZeroByte]

\* Line 159: read_buffer(.., offset, &mut chunk_result[..end]) fills the first
\* end cells with the bytes at offset, offset + 1, .. of the radio's buffer,
\* whose addresses are u8, and leaves the other cells as they were.
ReadInto(buf, offset, end) ==
    [j \in 1..ChunkLen |-> IF j <= end THEN (offset + j - 1) % U8Mod ELSE buf[j]]

radio == <<devMode, devStatus, dio1Level, nReceived, nReplies>>
pin == <<dio1Ready, pinInits, lora_dio1>>
hw == <<pin, nvicUnmasked, pending>>
latchVars == <<DIO1_RISEN, nSignals, nTrue, burst, swapped, took, trueSince>>
locals == <<status, payload_len, start_offset, i, chunk_result>>

(***************************************************************************)
(* The interrupt side.                                                     *)
(***************************************************************************)
\* The radio raises DIO1: the EXTI line latches its pending bit.
Dio1Edge ==
    /\ dio1Ready
    /\ ~pending
    /\ nSignals < MaxSignals
    /\ pending' = TRUE
    /\ UNCHANGED <<pc, haltCause, overflowChecks, radio, pin, nvicUnmasked,
                   latchVars, locals, calls, results, diag, initCalls, scriptPos>>

\* DIO1_RISEN.store(true, Relaxed)
Store(old) == TRUE

\* dio1_pin.check_interrupt(): the pending bit of the DIO1 line.
CheckInterruptAlways(p) == TRUE
CheckInterrupt(p) == p

\* fn EXTI15_10().  The vector serves the EXTI lines 10 to 15: a run is caused
\* by the pending DIO1 line or by another line of the vector, and in the
\* second case it may find the DIO1 line pending or not.  The handler runs to
\* its end before main resumes.
EXTI15_10 ==
    /\ nvicUnmasked
    /\ \E cause \in {"dio1", "other"} : cause = "dio1" => pending
    /\ IF CheckInterrupt(pending)
         THEN /\ DIO1_RISEN' = Store(DIO1_RISEN)
              /\ pending' = FALSE
              /\ nSignals' = nSignals + 1
              /\ burst' = IF swapped \/ burst = 0 THEN 1 ELSE burst + 1
              /\ swapped' = FALSE
              /\ trueSince' = 0
         ELSE UNCHANGED <<DIO1_RISEN, pending, nSignals, burst, swapped, trueSince>>
    /\ UNCHANGED <<pc, haltCause, overflowChecks, radio, pin, nvicUnmasked, nTrue,
                   took, locals, calls, results, diag, initCalls, scriptPos>>

(***************************************************************************)
(* main(): startup.                                                        *)
(***************************************************************************)
\* Where main() starts: the first step of the model is the setup of DIO1.
EntrySkipsSetup == "init"
Entry == "setup_dio1"

\* Lines 100-110: main takes a mutable reference to DIO1_PIN, writes the pin
\* through it, makes the pin a rising-edge interrupt source and keeps the
\* reference, wrapped in Dio1PinRefMut, in lora_dio1.
SetupDio1 ==
    /\ pc = "setup_dio1"
    /\ dio1Ready' = TRUE
    /\ pinInits' = pinInits + 1
    /\ lora_dio1' = "DIO1_PIN"
    /\ pc' = "init"
    /\ UNCHANGED <<haltCause, overflowChecks, radio, nvicUnmasked, pending, latchVars,
                   locals, calls, results, diag, initCalls, scriptPos>>

\* Where main goes when lora.init returns Err.
InitRetry(ok) == IF ok THEN "unmask" ELSE "init"
AfterInitArmFirst(ok) == Unwrap(ok, "set_rx")
AfterInit(ok) == Unwrap(ok, "unmask")

\* Line 125: lora.init(spi1, delay, conf).unwrap()
LoraInit ==
    /\ pc = "init"
    /\ \E ok \in BOOLEAN :
          /\ Issue(CallInit, ok)
          /\ pc' = AfterInit(ok)
          /\ haltCause' = IF pc' = "halt" THEN "DeviceError" ELSE haltCause
    /\ initCalls' = initCalls + 1
    /\ UNCHANGED <<overflowChecks, radio, hw, latchVars, locals, diag, scriptPos>>

\* Line 137: NVIC::unmask(EXTI15_10)
Unmask ==
    /\ pc = "unmask"
    /\ nvicUnmasked' = TRUE
    /\ pc' = "set_rx"
    /\ UNCHANGED <<haltCause, overflowChecks, radio, pin, pending, latchVars,
                   locals, calls, results, diag, initCalls, scriptPos>>

\* Line 141: lora.set_rx(spi1, delay, rx_timeout).unwrap()
SetRx ==
    /\ pc = "set_rx"
    /\ \E ok \in BOOLEAN : Command(CallSetRx, ok, "poll")
    /\ UNCHANGED <<overflowChecks, hw, latchVars, locals, diag, initCalls, scriptPos>>

(***************************************************************************)
(* main(): the loop.                                                       *)
(***************************************************************************)
\* DIO1_RISEN.swap(false, Relaxed): the value it leaves and the value it returns.
SwapLoad(old) == old
SwapStoreTrue(old) == TRUE
SwapNew(old) == FALSE
SwapRet(old) == old

\* if DIO1_RISEN.swap(..) { .. }: the body starts with clear_irq_status.
TakenSkipClear(taken) == IF taken THEN "get_status" ELSE "poll"
Taken(taken) == IF taken THEN "clear_irq" ELSE "poll"

\* Line 143
Take ==
    /\ pc = "poll"
    /\ DIO1_RISEN' = SwapNew(DIO1_RISEN)
    /\ swapped' = TRUE
    /\ took' = IF SwapRet(DIO1_RISEN) THEN "true" ELSE "false"
    /\ pc' = Taken(SwapRet(DIO1_RISEN))
    /\ IF SwapRet(DIO1_RISEN)
         THEN /\ nTrue' = nTrue + 1
              /\ trueSince' = trueSince + 1
              /\ calls' = <<>>
              /\ results' = <<>>
              /\ diag' = <<>>
              /\ status' = NoStatus
              /\ payload_len' = 0
              /\ start_offset' = 0
              /\ i' = 0
              /\ chunk_result' = Zeroed
         ELSE UNCHANGED <<nTrue, trueSince, calls, results, diag, locals>>
    /\ UNCHANGED <<haltCause, overflowChecks, radio, hw, nSignals, burst, initCalls, scriptPos>>

\* Line 144: lora.clear_irq_status(spi1, delay, IrqMask::all()).unwrap()
ClearIrqStatus ==
    /\ pc = "clear_irq"
    /\ \E ok \in BOOLEAN : Command(CallClearIrq, ok, "get_status")
    /\ UNCHANGED <<overflowChecks, hw, latchVars, locals, diag, initCalls, scriptPos>>

\* The order in which the trace test has get_status return the four statuses
\* main matches.  scriptPos follows the results get_status has returned so far.
Script == << {"DataAvailable"}, {"CommandTxDone"}, {"CommandTimeout"}, OtherStatuses >>
OffScript == 0 - 1
ScriptAdvance(pos, s) ==
    IF pos >= 0 /\ pos < Len(Script) /\ s \in Script[pos + 1]
      THEN pos + 1
      ELSE OffScript

\* match status.command_status() { .. }, lines 146-188
DispatchRearmOnTimeout(s) ==
    CASE s = "DataAvailable"  -> "buf_status"
      [] s = "CommandTxDone"  -> "rearm"
      [] s = "CommandTimeout" -> "rearm"
      [] OTHER                -> "report_other"
DispatchNoRearm(s) ==
    CASE s = "DataAvailable"  -> "buf_status"
      [] s = "CommandTxDone"  -> "poll"
      [] s = "CommandTimeout" -> "report_timeout"
      [] OTHER                -> "report_other"
Dispatch(s) ==
    CASE s = "DataAvailable"  -> "buf_status"
      [] s = "CommandTxDone"  -> "rearm"
      [] s = "CommandTimeout" -> "report_timeout"
      [] OTHER                -> "report_other"

\* Lines 145-146: let status = lora.get_status(spi1, delay).unwrap(); match ..
GetStatus ==
    /\ pc = "get_status"
    /\ \E ok \in BOOLEAN :
          \E s \in CommandStatuses :
             /\ Issue(CallGetStatus, ok)
             /\ status' = IF ok THEN s ELSE status
             /\ pc' = Unwrap(ok, Dispatch(s))
             /\ haltCause' = IF pc' = "halt" THEN "DeviceError" ELSE haltCause
             /\ scriptPos' = IF ok THEN ScriptAdvance(scriptPos, s) ELSE scriptPos
             /\ ok \/ s = "None"    \* an Err carries no status
    /\ UNCHANGED <<overflowChecks, hw, latchVars, payload_len, start_offset, i,
                   chunk_result, diag, initCalls>>

\* Lines 148-152: led on, then lora.get_rx_buffer_status(spi1, delay).unwrap()
GetRxBufferStatus ==
    /\ pc = "buf_status"
    /\ \E ok \in BOOLEAN :
          \E len \in PayloadLens :
             \E start \in StartOffsets :
                /\ Command(CallGetRxBufferStatus, ok, "print_header")
                /\ payload_len' = IF ok THEN len ELSE payload_len
                /\ start_offset' = IF ok THEN start ELSE start_offset
                /\ ok \/ (len = 0 /\ start = 0)    \* an Err carries no buffer status
    /\ UNCHANGED <<overflowChecks, radio, hw, latchVars, status, i, chunk_result, diag,
                   initCalls, scriptPos>>

\* Lines 154-157: the message header, then chunk_result is zeroed and the
\* loop starts at i = 0.
PrintHeader ==
    /\ pc = "print_header"
    /\ \E ok \in BOOLEAN :
          Report([out |-> "Message", start_offset |-> start_offset,
                  payload_len |-> payload_len], ok, "drain")
    /\ i' = 0
    /\ chunk_result' = Zeroed
    /\ UNCHANGED <<overflowChecks, radio, hw, latchVars, status, payload_len,
                   start_offset, calls, results, initCalls, scriptPos>>

\* (0..payload_len).step_by(chunk_result.len()) yields i while i < payload_len.
LoopEntersAtEnd(ii, len) == ii <= len
LoopContinues(ii, len) == ii < len

\* Line 158: (payload_len - i).min(chunk_result.len() as u8)
ChunkEnd(len, ii) == Min(len - ii, ChunkLen)

\* Line 159: i + start_offset in u8, before any overflow check.
ChunkOffset(ii, start) == ii + start

\* Lines 157-160: the next chunk is read at i + start_offset.
ReadBuffer ==
    /\ pc = "drain"
    /\ LoopContinues(i, payload_len)
    /\ ~(overflowChecks /\ ChunkOffset(i, start_offset) > U8Max)
    /\ \E ok \in BOOLEAN :
          /\ Command(CallReadBuffer(ChunkOffset(i, start_offset) % U8Mod,
                                    ChunkEnd(payload_len, i)),
                     ok, "print_chunk")
          /\ chunk_result' =
                IF ok THEN ReadInto(chunk_result, ChunkOffset(i, start_offset) % U8Mod,
                                    ChunkEnd(payload_len, i))
                      ELSE chunk_result
    /\ UNCHANGED <<overflowChecks, radio, hw, latchVars, status, payload_len, start_offset,
                   i, diag, initCalls, scriptPos>>

\* Line 159 in a build with overflow checks: i + start_offset panics.
AddOverflowPanic ==
    /\ pc = "drain"
    /\ LoopContinues(i, payload_len)
    /\ overflowChecks
    /\ ChunkOffset(i, start_offset) > U8Max
    /\ pc' = "halt"
    /\ haltCause' = "Overflow"
    /\ UNCHANGED <<overflowChecks, radio, hw, latchVars, locals, calls, results, diag,
                   initCalls, scriptPos>>

\* Line 163: what of chunk_result is handed to hprint!, given the length end
\* of the chunk just read.
Printed(buf, end) == buf

\* Lines 161-164: chunk_result is printed, then the loop steps.
PrintChunk ==
    /\ pc = "print_chunk"
    /\ \E ok \in BOOLEAN :
          Report([out |-> "chunk",
                  bytes |-> Printed(chunk_result, ChunkEnd(payload_len, i))],
                 ok, "drain")
    /\ i' = i + ChunkLen
    /\ UNCHANGED <<overflowChecks, radio, hw, latchVars, status, payload_len,
                   start_offset, chunk_result, calls, results, initCalls, scriptPos>>

\* Line 166: the closing quote, once the loop is over.
PrintClose ==
    /\ pc = "drain"
    /\ ~LoopContinues(i, payload_len)
    /\ \E ok \in BOOLEAN : Report([out |-> "close"], ok, "transmit")
    /\ UNCHANGED <<overflowChecks, radio, hw, latchVars, locals, calls, results,
                   initCalls, scriptPos>>

\* Lines 169-179: lora.write_bytes(..).unwrap(), led off.
WriteBytes ==
    /\ pc = "transmit"
    /\ \E ok \in BOOLEAN : Command(CallWriteBytes, ok, "poll")
    /\ UNCHANGED <<overflowChecks, hw, latchVars, locals, diag, initCalls, scriptPos>>

\* Line 184: lora.set_rx(spi1, delay, rx_timeout).unwrap()
Rearm ==
    /\ pc = "rearm"
    /\ \E ok \in BOOLEAN : Command(CallSetRx, ok, "poll")
    /\ UNCHANGED <<overflowChecks, hw, latchVars, locals, diag, initCalls, scriptPos>>

\* Line 186
ReportTimeout ==
    /\ pc = "report_timeout"
    /\ \E ok \in BOOLEAN : Report([out |-> "CommandTimeout"], ok, "poll")
    /\ UNCHANGED <<overflowChecks, radio, hw, latchVars, locals, calls, results,
                   initCalls, scriptPos>>

\* Line 187
ReportOther ==
    /\ pc = "report_other"
    /\ \E ok \in BOOLEAN : Report([out |-> "Other", status |-> status], ok, "poll")
    /\ UNCHANGED <<overflowChecks, radio, hw, latchVars, locals, calls, results,
                   initCalls, scriptPos>>

(***************************************************************************)
(* The specification.                                                      *)
(***************************************************************************)
\* static DIO1_RISEN: AtomicBool = AtomicBool::new(false)
LatchInitTrue == TRUE
LatchInit == FALSE

Init ==
    /\ pc = Entry
    /\ haltCause = "none"
    /\ overflowChecks \in BOOLEAN
    /\ dio1Ready = FALSE
    /\ pinInits = 0
    /\ lora_dio1 = "none"
    /\ nvicUnmasked = FALSE
    /\ pending = FALSE
    /\ DIO1_RISEN = LatchInit
    /\ status = NoStatus
    /\ payload_len = 0
    /\ start_offset = 0
    /\ i = 0
    /\ chunk_result = Zeroed
    /\ calls = <<>>
    /\ results = <<>>
    /\ diag = <<>>
    /\ initCalls = 0
    /\ nSignals = 0
    /\ nTrue = 0
    /\ burst = 0
    /\ swapped = FALSE
    /\ took = "none"
    /\ trueSince = 0
    /\ scriptPos = 0
    /\ devMode = "standby"
    /\ devStatus = "None"
    /\ dio1Level = FALSE
    /\ nReceived = 0
    /\ nReplies = 0

\* The radio of Spec is a scripted double: it keeps no state, its DIO1 edges
\* (Dio1Edge) and the statuses it returns (GetStatus) are arbitrary.
Scripted == UNCHANGED radio

Next ==
    \/ Dio1Edge
    \/ EXTI15_10
    \/ SetupDio1
    \/ LoraInit
    \/ Unmask
    \/ SetRx /\ Scripted
    \/ Take
    \/ ClearIrqStatus /\ Scripted
    \/ GetStatus /\ Scripted
    \/ GetRxBufferStatus
    \/ PrintHeader
    \/ ReadBuffer
    \/ AddOverflowPanic
    \/ PrintChunk
    \/ PrintClose
    \/ WriteBytes /\ Scripted
    \/ Rearm /\ Scripted
    \/ ReportTimeout
    \/ ReportOther

Spec == Init /\ [][Next]_vars

(***************************************************************************)
(* The program when no driver call and no write to the sink fails, and     *)
(* main runs on.  main is the one thread of the core: it takes its next    *)
(* step unless a handler run has the core, and a handler run ends, so a    *)
(* step of main that stays possible is eventually taken.                   *)
(***************************************************************************)
main ==
    \/ SetupDio1
    \/ LoraInit
    \/ Unmask
    \/ SetRx /\ Scripted
    \/ Take
    \/ ClearIrqStatus /\ Scripted
    \/ GetStatus /\ Scripted
    \/ GetRxBufferStatus
    \/ PrintHeader
    \/ ReadBuffer
    \/ AddOverflowPanic
    \/ PrintChunk
    \/ PrintClose
    \/ WriteBytes /\ Scripted
    \/ Rearm /\ Scripted
    \/ ReportTimeout
    \/ ReportOther

\* No Result is an Err in this step.
NoFailure == haltCause' \notin {"DeviceError", "SinkError"}

FairNext ==
    \/ Dio1Edge
    \/ EXTI15_10
    \/ main /\ NoFailure

FairSpec == Init /\ [][FairNext]_vars /\ WF_vars(main /\ NoFailure)

\* The same for the builds without overflow checks, where i + start_offset wraps.
FairSpecWrapping ==
    Init /\ ~overflowChecks /\ [][FairNext]_vars /\ WF_vars(main /\ NoFailure)

(***************************************************************************)
(* The program with a radio that behaves as the interface of the driver is *)
(* described: set_rx puts it in listening mode; while listening it         *)
(* receives a payload or times out; write_bytes begins a transmission,     *)
(* whose completion arrives later; each of the three events sets the       *)
(* status get_status returns (the most recent classification) and raises   *)
(* DIO1, which clear_irq_status lowers.                                    *)
(***************************************************************************)
\* The radio raises an interrupt on DIO1: a rising edge if the line was low.
Raise ==
    /\ dio1Level' = TRUE
    /\ pending' = (pending \/ (dio1Ready /\ ~dio1Level))

PayloadReceived ==
    /\ devMode = "rx"
    /\ nSignals < MaxSignals
    /\ nReceived' = nReceived + 1
    /\ devStatus' = "DataAvailable"
    /\ devMode' = "standby"
    /\ Raise
    /\ UNCHANGED <<pc, haltCause, overflowChecks, pin, nvicUnmasked, latchVars,
                   locals, calls, results, diag, initCalls, scriptPos, nReplies>>

\* After a timeout the radio is still listening, or is not.
ReceiveTimeout ==
    /\ devMode = "rx"
    /\ nSignals < MaxSignals
    /\ devStatus' = "CommandTimeout"
    /\ devMode' \in {"rx", "standby"}
    /\ Raise
    /\ UNCHANGED <<pc, haltCause, overflowChecks, pin, nvicUnmasked, latchVars,
                   locals, calls, results, diag, initCalls, scriptPos, nReceived,
                   nReplies>>

TransmitDone ==
    /\ devMode = "tx"
    /\ nSignals < MaxSignals
    /\ devStatus' = "CommandTxDone"
    /\ devMode' = "standby"
    /\ Raise
    /\ UNCHANGED <<pc, haltCause, overflowChecks, pin, nvicUnmasked, latchVars,
                   locals, calls, results, diag, initCalls, scriptPos, nReceived,
                   nReplies>>

\* The driver call of this step returned Ok.
Returned == pc' # "halt"

\* set_rx: the radio listens.  Whether a command that starts an operation
\* resets the classification before the operation ends is left open.
Listen ==
    IF Returned
      THEN /\ devMode' = "rx"
           /\ devStatus' \in {devStatus, "None"}
           /\ UNCHANGED <<dio1Level, nReceived, nReplies>>
      ELSE UNCHANGED radio

\* clear_irq_status(IrqMask::all()): DIO1 goes low.
ClearFlags ==
    IF Returned
      THEN dio1Level' = FALSE /\ UNCHANGED <<devMode, devStatus, nReceived, nReplies>>
      ELSE UNCHANGED radio

\* get_status returns the radio's most recent classification.
ReportStatus ==
    /\ Returned => status' = devStatus
    /\ UNCHANGED radio

\* write_bytes: the radio begins to transmit.
StartTransmit ==
    IF Returned
      THEN /\ devMode' = "tx"
           /\ devStatus' \in {devStatus, "None"}
           /\ nReplies' = nReplies + 1
           /\ UNCHANGED <<dio1Level, nReceived>>
      ELSE UNCHANGED radio

DeviceNext ==
    \/ PayloadReceived
    \/ ReceiveTimeout
    \/ TransmitDone
    \/ EXTI15_10
    \/ SetupDio1
    \/ LoraInit
    \/ Unmask
    \/ SetRx /\ Listen
    \/ Take
    \/ ClearIrqStatus /\ ClearFlags
    \/ GetStatus /\ ReportStatus
    \/ GetRxBufferStatus
    \/ PrintHeader
    \/ ReadBuffer
    \/ AddOverflowPanic
    \/ PrintChunk
    \/ PrintClose
    \/ WriteBytes /\ StartTransmit
    \/ Rearm /\ Listen
    \/ ReportTimeout
    \/ ReportOther

DeviceSpec == Init /\ [][DeviceNext]_vars

(***************************************************************************)
(* Reading the record of one loop iteration.                               *)
(***************************************************************************)
Ops == [k \in 1..Len(calls) |-> calls[k].op]
Where(op) == {k \in 1..Len(calls) : calls[k].op = op}
Count(op) == Cardinality(Where(op))
\* The read_buffer calls of the iteration, in the order they were issued.
IsRead(c) == c.op = "read_buffer"
Reads == SelectSeq(calls, IsRead)
\* The iteration has matched a status: calls is the record of a loop iteration.
Dispatched == nTrue >= 1 /\ status # NoStatus
\* get_rx_buffer_status has returned Ok in this iteration.
BufferStatusKnown ==
    \E k \in Where("get_rx_buffer_status") : results[k]
\* The handling of the event is over: main is polling again, or has stopped.
BackAtPoll == pc = "poll"
StoppedUnfailed == pc = "halt" /\ haltCause \notin {"DeviceError", "SinkError"}
\* Number of chunks of a payload of len bytes.
ChunksOf(len) == (len + ChunkLen - 1) \div ChunkLen

(***************************************************************************)
(* C1.  During one drain the (offset, length) pairs passed to read_buffer  *)
(* tile [start_offset, start_offset + payload_len): the k-th read starts   *)
(* where the one before it ended, no read is longer than 32 bytes, and the *)
(* drain ends with the whole interval read, its last chunk being           *)
(* payload_len mod 32 bytes long (32 when that is zero).  Stated for every *)
(* payload length and start offset the radio reports; it fails where       *)
(* i + start_offset leaves the u8 range.                                   *)
(***************************************************************************)
DrainTiles ==
    (Dispatched /\ status = "DataAvailable" /\ BufferStatusKnown) =>
        /\ \A k \in 1..Len(Reads) :
              /\ Reads[k].offset = start_offset + ChunkLen * (k - 1)
              /\ Reads[k].len >= 1
              /\ Reads[k].len <= 32
              /\ Reads[k].offset + Reads[k].len <= start_offset + payload_len
              /\ k < Len(Reads) => Reads[k].len = 32
        /\ (BackAtPoll \/ StoppedUnfailed \/ pc = "transmit") =>
              /\ Len(Reads) = ChunksOf(payload_len)
              /\ payload_len > 0 =>
                    Reads[Len(Reads)].len =
                        (IF payload_len % 32 = 0 THEN 32 ELSE payload_len % 32)

\* The same tiling where no chunk offset leaves the u8 range: there it holds.
DrainTilesInRange ==
    (start_offset + ChunkLen * (ChunksOf(payload_len) - 1) <= U8Max) => DrainTiles

\* A drain of two chunks has been read to its end without leaving the range.
DrainTilesInRangeSeen ==
    /\ Dispatched /\ status = "DataAvailable" /\ pc = "transmit"
    /\ Len(Reads) = 2 /\ start_offset > 0

(***************************************************************************)
(* C2.  Once get_status has returned CommandTxDone, the next driver call   *)
(* is set_rx with the 3000 ms receive timeout: nothing else is called      *)
(* first, and main does not poll the latch again before it.                *)
(***************************************************************************)
TxDoneRearms ==
    (Dispatched /\ status = "CommandTxDone") =>
        \E g \in Where("get_status") :
            /\ results[g]
            /\ Len(calls) = g => pc = "rearm"
            /\ Len(calls) > g =>
                  /\ calls[g + 1] = [op |-> "set_rx", timeout_ms |-> 3000]
                  /\ Len(calls) = g + 1
            /\ pc = "poll" => Len(calls) = g + 1

TxDoneRearmsSeen ==
    /\ Dispatched /\ status = "CommandTxDone" /\ pc = "poll"
    /\ calls[Len(calls)].op = "set_rx" /\ results[Len(calls)]

(***************************************************************************)
(* C3.  A payload-available event whose buffer status reports length 0     *)
(* causes no read_buffer call, and exactly one write_bytes call once the   *)
(* iteration is over.                                                      *)
(***************************************************************************)
EmptyPayload ==
    Dispatched /\ status = "DataAvailable" /\ BufferStatusKnown /\ payload_len = 0

EmptyPayloadReplies ==
    EmptyPayload =>
        /\ Count("read_buffer") = 0
        /\ Count("write_bytes") <= 1
        /\ (BackAtPoll \/ StoppedUnfailed) => Count("write_bytes") = 1

EmptyPayloadRepliesSeen ==
    EmptyPayload /\ pc = "poll" /\ Count("write_bytes") = 1 /\ results[Len(calls)]

(***************************************************************************)
(* C4.  Against a radio double whose get_status results are, in order,     *)
(* payload-available, transmit-done, command-timeout and an unclassified   *)
(* status, the calls after get_status are: get_rx_buffer_status, the       *)
(* read_buffer calls and write_bytes; then set_rx; then none, with the     *)
(* timeout reported; then none, with the status reported.  In any          *)
(* iteration, a command-timeout, an unlisted status or an absent one is    *)
(* followed by no driver call.                                             *)
(***************************************************************************)
\* The calls so far are the start of clear, status, buffer status, reads, write.
TraceDrainReply ==
    /\ \A k \in 1..Len(calls) :
          /\ k = 1 => calls[k].op = "clear_irq_status"
          /\ k = 2 => calls[k].op = "get_status"
          /\ k = 3 => calls[k].op = "get_rx_buffer_status"
          /\ k >= 4 => calls[k].op \in {"read_buffer", "write_bytes"}
          /\ calls[k].op = "write_bytes" => k = Len(calls)
    /\ BackAtPoll => (Len(calls) >= 4 /\ calls[Len(calls)].op = "write_bytes")
    /\ Count("write_bytes") = 1 => Len(Reads) = ChunksOf(payload_len)

TraceRearm ==
    /\ Len(calls) <= 3
    /\ \A k \in 1..Len(calls) :
          calls[k].op = <<"clear_irq_status", "get_status", "set_rx">>[k]
    /\ BackAtPoll => Len(calls) = 3

TraceReportOnly(text) ==
    /\ Ops = <<"clear_irq_status", "get_status">>
    /\ diag \in {<<>>, <<text>>}
    /\ BackAtPoll => diag = <<text>>

ScriptedTrace ==
    /\ (Dispatched /\ scriptPos \in 1..4) =>
          CASE scriptPos = 1 -> TraceDrainReply
            [] scriptPos = 2 -> TraceRearm
            [] scriptPos = 3 -> TraceReportOnly([out |-> "CommandTimeout"])
            [] scriptPos = 4 -> TraceReportOnly([out |-> "Other", status |-> status])
    /\ (Dispatched /\ status \in {"CommandTimeout", "Unlisted", "None"}) =>
          /\ calls[Len(calls)].op = "get_status"
          /\ Count("set_rx") = 0

ScriptedTraceSeen ==
    /\ scriptPos = 4 /\ Dispatched /\ pc = "poll"
    /\ diag = <<[out |-> "Other", status |-> status]>>

(***************************************************************************)
(* C5.  After a single store of true by the handler, the first swap        *)
(* returns true and leaves the latch false, and every later swap with no   *)
(* store in between returns false: exactly one swap has observed true.     *)
(***************************************************************************)
OneSignalOneTake ==
    burst = 1 =>
        IF swapped
          THEN /\ ~DIO1_RISEN
               /\ trueSince = 1
          ELSE /\ DIO1_RISEN
               /\ trueSince = 0

OneSignalOneTakeSeen ==
    burst = 1 /\ swapped /\ took = "false" /\ trueSince = 1 /\ ~DIO1_RISEN

(***************************************************************************)
(* C6.  Two or more stores of true with no swap between them are observed  *)
(* as true by exactly one swap, and over the whole run the swaps that      *)
(* returned true never outnumber the stores of true.                       *)
(***************************************************************************)
SignalsCoalesce ==
    /\ nTrue <= nSignals
    /\ burst >= 2 =>
          IF swapped
            THEN ~DIO1_RISEN /\ trueSince = 1
            ELSE DIO1_RISEN /\ trueSince = 0

SignalsCoalesceSeen ==
    burst >= 2 /\ swapped /\ took = "false" /\ trueSince = 1 /\ nTrue < nSignals

(***************************************************************************)
(* C7.  In an iteration whose swap returned true, main calls               *)
(* clear_irq_status with the all-bits mask once, first, and get_status     *)
(* next, before any other driver call; while the latch is false at the     *)
(* poll, no step issues a driver call or leaves the poll.                  *)
(***************************************************************************)
ClearFirst ==
    nTrue >= 1 =>
        /\ pc = "clear_irq" <=> calls = <<>>
        /\ Len(calls) >= 1 =>
              calls[1] = [op |-> "clear_irq_status", mask |-> "IrqMask::all"]
        /\ Len(calls) >= 2 => (calls[2].op = "get_status" /\ results[1])
        /\ (Len(calls) = 1 /\ results[1]) => pc = "get_status"
        /\ Count("clear_irq_status") <= 1
        /\ Count("get_status") <= 1

ClearThenStatus ==
    /\ []ClearFirst
    /\ [][(pc = "poll" /\ ~DIO1_RISEN) => (calls' = calls /\ pc' = "poll")]_vars

ClearThenStatusSeen ==
    /\ nTrue >= 1 /\ Len(calls) >= 3
    /\ calls[1].op = "clear_irq_status" /\ calls[2].op = "get_status"

(***************************************************************************)
(* C8.  Every payload-available status gets exactly one write_bytes, which *)
(* is issued after get_rx_buffer_status and after every read_buffer of the *)
(* payload, with the fixed reply, transmit timeout 0, preamble length 8,   *)
(* CRC on and the DIO1 line; no other status gets a write_bytes.  It fails *)
(* where the drain panics on i + start_offset before the reply.            *)
(***************************************************************************)
ReplyAfterDrain ==
    /\ Count("write_bytes") <= 1
    /\ \A k \in Where("write_bytes") :
          /\ calls[k] = [ op |-> "write_bytes", data |-> "Hello from sx126x-rs!",
                          timeout |-> 0, preamble_len |-> 8, crc_type |-> "CrcOn",
                          dio1 |-> "DIO1_PIN" ]
          /\ k = Len(calls)
          /\ Dispatched /\ status = "DataAvailable" /\ BufferStatusKnown
          /\ Len(Reads) = ChunksOf(payload_len)
          /\ \A j \in 1..(k - 1) : results[j]

ReplyOncePerPayload ==
    /\ ReplyAfterDrain
    /\ (Dispatched /\ status = "DataAvailable" /\ (BackAtPoll \/ StoppedUnfailed)) =>
          Count("write_bytes") = 1

\* The same where the build wraps on overflow instead of panicking: there it holds.
ReplyOncePerPayloadWrapping ==
    ~overflowChecks => ReplyOncePerPayload

(***************************************************************************)
(* C9.  A driver call that returns Err stops main there: it is the last    *)
(* call ever issued and the latch is not swapped again.  A command-timeout *)
(* or unclassified status does not stop main: after one, main is reporting *)
(* or polling, unless the report itself could not be written.              *)
(***************************************************************************)
Failed == \E k \in 1..Len(results) : ~results[k]

FailureIsLast ==
    /\ Failed =>
          /\ pc = "halt"
          /\ haltCause = "DeviceError"
          /\ \A k \in 1..(Len(results) - 1) : results[k]
    /\ (Dispatched /\ status \in {"CommandTimeout", "Unlisted", "None"}) =>
          \/ pc \in {"report_timeout", "report_other", "poll"}
          \/ pc = "halt" /\ haltCause = "SinkError" /\ ~Failed

FailureHalts ==
    /\ []FailureIsLast
    /\ [][Failed => /\ pc' = "halt"
                    /\ calls' = calls
                    /\ results' = results
                    /\ nTrue' = nTrue
                    /\ took' = took
                    /\ DIO1_RISEN => DIO1_RISEN'
                    /\ swapped' => swapped]_vars

FailureHaltsSeen ==
    /\ Failed /\ pc = "halt" /\ DIO1_RISEN
    /\ calls[Len(calls)].op = "read_buffer"

(***************************************************************************)
(* C10.  lora.init is called exactly once, with the configuration          *)
(* build_config returns, before any other driver call; when it returns Err *)
(* main stops with init the only call ever issued.                         *)
(***************************************************************************)
InitOnceFirst ==
    /\ initCalls <= 1
    /\ pc \notin {"setup_dio1", "init"} => initCalls = 1
    /\ Len(calls) >= 1 => initCalls = 1
    /\ nTrue = 0 =>
          /\ Len(calls) >= 1 =>
                (calls[1] = [op |-> "init", conf |-> build_config] /\ Count("init") = 1)
          /\ Len(calls) >= 2 => results[1]
          /\ (Len(calls) >= 1 /\ ~results[1]) => (pc = "halt" /\ Len(calls) = 1)
    /\ nTrue >= 1 => Count("init") = 0

InitOnceFirstSeen ==
    initCalls = 1 /\ nTrue >= 1 /\ pc = "poll" /\ Count("write_bytes") = 1

(***************************************************************************)
(* C11.  A run of EXTI15_10 that finds the DIO1 line pending stores true   *)
(* into the latch and clears the pending bit, once; a run caused by        *)
(* another line of the vector, the DIO1 line not pending, changes neither  *)
(* the latch nor the pending bit.                                          *)
(***************************************************************************)
HandlerLatches ==
    [][ /\ (EXTI15_10 /\ pending) =>
              (DIO1_RISEN' /\ ~pending' /\ nSignals' = nSignals + 1)
        /\ (EXTI15_10 /\ ~pending) =>
              (DIO1_RISEN' = DIO1_RISEN /\ pending' = pending /\ nSignals' = nSignals)
      ]_vars

HandlerLatchesSeen ==
    nSignals >= 1 /\ DIO1_RISEN /\ ~pending /\ burst = 1

(***************************************************************************)
(* C12.  The latch goes from false to true only in a step of the handler   *)
(* (the step that clears the pending bit, main standing still), and from   *)
(* true to false only in main's swap at the poll, which returns true.  The *)
(* handler changes nothing of the program but the latch and the pending    *)
(* bit.                                                                    *)
(***************************************************************************)
MainState == <<pc, haltCause, locals, calls, results, diag, initCalls, took, nTrue>>

LatchWriters ==
    [][ /\ (~DIO1_RISEN /\ DIO1_RISEN') =>
              /\ EXTI15_10
              /\ nvicUnmasked /\ pending /\ ~pending'
              /\ UNCHANGED MainState
        /\ (DIO1_RISEN /\ ~DIO1_RISEN') =>
              /\ Take
              /\ pc = "poll" /\ pc' = "clear_irq" /\ took' = "true"
              /\ UNCHANGED pending
        /\ EXTI15_10 => UNCHANGED <<MainState, pin, nvicUnmasked, overflowChecks>>
      ]_vars

\* The latch has gone up in the handler and down again in main.
LatchWritersSeen ==
    nSignals >= 1 /\ nTrue >= 1 /\ ~DIO1_RISEN /\ took = "true"

(***************************************************************************)
(* C13.  From the unmasking of the vector on, main holds no reference to   *)
(* DIO1_PIN and passes none to a driver call: only the handler touches the *)
(* pin.                                                                    *)
(***************************************************************************)
MainLeavesPin ==
    nvicUnmasked =>
        /\ lora_dio1 = "none"
        /\ \A k \in 1..Len(calls) :
              calls[k].op = "write_bytes" => calls[k].dio1 = "none"

(***************************************************************************)
(* C14.  DIO1_PIN is written once, before the vector is unmasked, and      *)
(* never again; the latch is false until a handler run stores true; no     *)
(* handler run finds DIO1_PIN unwritten.                                   *)
(***************************************************************************)
PinBeforeUnmaskNow ==
    /\ pinInits <= 1
    /\ dio1Ready <=> (pinInits = 1)
    /\ nvicUnmasked => dio1Ready
    /\ pc = Entry => ~DIO1_RISEN
    /\ DIO1_RISEN => nSignals >= 1

PinBeforeUnmask ==
    /\ []PinBeforeUnmaskNow
    /\ [][ /\ pinInits' # pinInits => (pinInits = 0 /\ ~nvicUnmasked /\ ~nvicUnmasked')
           /\ EXTI15_10 => dio1Ready
         ]_vars

PinBeforeUnmaskSeen ==
    nvicUnmasked /\ pinInits = 1 /\ nSignals >= 1 /\ pc = "poll"

(***************************************************************************)
(* C15.  When the closing quote has been written, the bytes written to the *)
(* sink between the two quotes are the bytes of the radio's buffer at      *)
(* start_offset, start_offset + 1, .., start_offset + payload_len - 1, in  *)
(* that order and nothing else: no cell of chunk_result that the chunk's   *)
(* own read did not fill is written, and nothing is written for an empty   *)
(* payload.                                                                *)
(***************************************************************************)
RECURSIVE Surfaced(_)
Surfaced(d) ==
    IF d = <<>> THEN <<>>
    ELSE IF d[1].out = "chunk" THEN d[1].bytes \o Surfaced(Tail(d))
                               ELSE Surfaced(Tail(d))

Payload(start, len) == [j \in 1..len |-> start + j - 1]

Closed == diag # <<>> /\ diag[Len(diag)].out = "close"

SurfacedIsPayload ==
    Closed => Surfaced(diag) = Payload(start_offset, payload_len)

\* It holds of the payloads that fill every chunk and end within the buffer.
SurfacedIsPayloadWholeChunks ==
    (Closed /\ payload_len % ChunkLen = 0 /\ start_offset + payload_len <= U8Mod)
        => Surfaced(diag) = Payload(start_offset, payload_len)

(***************************************************************************)
(* C16.  Whatever u8 start_offset and payload_len the radio reports, the   *)
(* sum i + start_offset and the difference payload_len - i stay within u8  *)
(* at every chunk (no panic, no wrapped offset), and no read_buffer call   *)
(* reaches the address start_offset + payload_len or beyond.               *)
(***************************************************************************)
AtChunk == pc = "drain" /\ LoopContinues(i, payload_len)

NoU8Overflow ==
    /\ haltCause # "Overflow"
    /\ AtChunk =>
          /\ ChunkOffset(i, start_offset) <= U8Max
          /\ payload_len - i >= 0
    /\ BufferStatusKnown =>
          \A k \in Where("read_buffer") :
              /\ calls[k].offset >= start_offset
              /\ calls[k].offset + calls[k].len <= start_offset + payload_len

\* The difference never leaves u8, and neither does the sum while the payload
\* ends within the radio's buffer.
NoU8OverflowInRange ==
    /\ AtChunk => (payload_len - i >= 1 /\ payload_len - i <= U8Max)
    /\ (BufferStatusKnown /\ start_offset + payload_len <= U8Mod) =>
          /\ haltCause # "Overflow"
          /\ AtChunk => ChunkOffset(i, start_offset) <= U8Max
          /\ \A k \in Where("read_buffer") :
                /\ calls[k].offset >= start_offset
                /\ calls[k].offset + calls[k].len <= start_offset + payload_len

(***************************************************************************)
(* C19.  The vector is unmasked before the first set_rx is issued, and the *)
(* first set_rx has returned before the first swap of the latch.  So an    *)
(* edge raised once the radio was first armed finds the handler able to    *)
(* run; its pending bit is cleared only by the handler run that stores     *)
(* true, and the true it stored leaves the latch only in a swap that       *)
(* returns it to main.                                                     *)
(***************************************************************************)
\* set_rx was issued at startup.
FirstArmed == nTrue >= 1 \/ Count("set_rx") >= 1

UnmaskArmTakeNow ==
    /\ FirstArmed => nvicUnmasked
    /\ took # "none" => FirstArmed
    /\ (took # "none" /\ nTrue = 0) =>
          (Ops = <<"init", "set_rx">> /\ results = <<TRUE, TRUE>>)
    /\ (FirstArmed /\ pending) => ENABLED EXTI15_10

UnmaskArmTake ==
    /\ []UnmaskArmTakeNow
    /\ [][ /\ (pending /\ ~pending') => (DIO1_RISEN' /\ nSignals' = nSignals + 1)
           /\ (DIO1_RISEN /\ ~DIO1_RISEN') => (took' = "true" /\ nTrue' = nTrue + 1)
         ]_vars

\* The first swap that returned true, after the startup set_rx.
UnmaskArmTakeSeen ==
    nSignals = 1 /\ nTrue = 1 /\ took = "true" /\ ~DIO1_RISEN /\ pc = "clear_irq"

(***************************************************************************)
(* C20.  The configuration main hands to lora.init, the value of           *)
(* build_config(), selects the LoRa packet type and the frequency          *)
(* 868000000 Hz, routes exactly TxDone, Timeout and RxDone to DIO1 and     *)
(* routes nothing to DIO2 and DIO3.                                        *)
(***************************************************************************)
ConfigRoutesThreeToDio1 ==
    \A k \in Where("init") :
        /\ calls[k].conf.packet_type = "LoRa"
        /\ calls[k].conf.rf_frequency = 868000000
        /\ calls[k].conf.dio1_irq_mask = {"TxDone", "Timeout", "RxDone"}
        /\ calls[k].conf.dio2_irq_mask = {}
        /\ calls[k].conf.dio3_irq_mask = {}

ConfigRoutesThreeToDio1Seen ==
    Ops = <<"init">> /\ results = <<TRUE>> /\ pc = "unmask"

(***************************************************************************)
(* C18.  When no driver call fails and main is scheduled fairly, main      *)
(* never stops, and every time the latch is true main later takes it,      *)
(* handles the event and is back at the poll.                              *)
(***************************************************************************)
\* LoopLive fails under FairSpec and holds under FairSpecWrapping.
LoopLive ==
    /\ [](pc # "halt")
    /\ \A n \in 0..MaxSignals :
          (DIO1_RISEN /\ nTrue = n) ~> (nTrue > n /\ pc = "poll")

(***************************************************************************)
(* C17.  With the radio of DeviceSpec and the handler running at any point *)
(* of main, the transmissions main has started never outnumber the         *)
(* payloads the radio has received: no payload is answered twice.          *)
(***************************************************************************)
RepliesWithinReceived == nReplies <= nReceived

\* What the loop does ensure: one reply at most for each swap that returned true.
RepliesWithinTakes == nReplies <= nTrue

====
